---- MODULE Spec2Model ----
(***************************************************************************)
(* The discounted-cash-flow valuation pipeline of                          *)
(* fundamental/company_fundamentals.py:                                    *)
(*   prepare_valuation_inputs -> calculate_discount_rate ->                *)
(*   calculate_discounted_free_cash_flow -> calculate_terminal_value ->    *)
(*   calculate_intrinsic_value -> calculate_margin_of_safety.              *)
(*                                                                         *)
(* A DataFrame is a sequence of rows; a row is a record                    *)
(*   [symbol |-> STRING, cols |-> [column name -> value]].                 *)
(* A float64 cell is an exact extended rational [n |-> Int, d |-> Nat]:    *)
(*   d > 0   the finite value n/d, in lowest terms;                        *)
(*   d = 0   n = 1: +inf, n = -1: -inf, n = 0: NaN.                        *)
(* Binary rounding error of float64 is not modelled; the IEEE special      *)
(* values and their propagation are.                                       *)
(***************************************************************************)
EXTENDS Integers, Sequences, FiniteSets, TLC

----------------------------------------------------------------------------
(* float64 values and the arithmetic pandas / numpy / Python apply to them *)

Abs(x) == IF x < 0 THEN -x ELSE x

Sign(x) == IF x > 0 THEN 1 ELSE IF x < 0 THEN -1 ELSE 0

RECURSIVE GCD(_, _)
GCD(a, b) == IF b = 0 THEN a ELSE GCD(b, a % b)

\* the float n/d; d = 0 gives the IEEE result of dividing n by zero
Q(n, d) ==
    IF d = 0 THEN [n |-> Sign(n), d |-> 0]
    ELSE LET g == GCD(Abs(n), Abs(d))
             s == IF d < 0 THEN -1 ELSE 1
         IN  [n |-> s * (n \div g), d |-> s * (d \div g)]

NaN    == [n |-> 0, d |-> 0]
PosInf == [n |-> 1, d |-> 0]
NegInf == [n |-> -1, d |-> 0]
Zero   == [n |-> 0, d |-> 1]
One    == [n |-> 1, d |-> 1]

IsNaN(a)    == a.d = 0 /\ a.n = 0
IsInf(a)    == a.d = 0 /\ a.n # 0
IsFinite(a) == a.d > 0

Neg(a) == [n |-> -a.n, d |-> a.d]

\* a + b on float64: NaN is contagious, inf + (-inf) is NaN
Add(a, b) ==
    IF IsNaN(a) \/ IsNaN(b) THEN NaN
    ELSE IF IsInf(a) /\ IsInf(b) THEN (IF a.n = b.n THEN a ELSE NaN)
    ELSE IF IsInf(a) THEN a
    ELSE IF IsInf(b) THEN b
    ELSE LET g == GCD(a.d, b.d)
         IN  Q(a.n * (b.d \div g) + b.n * (a.d \div g), (a.d \div g) * b.d)

Sub(a, b) == Add(a, Neg(b))

\* a * b on float64: inf * 0 is NaN
Mul(a, b) ==
    IF IsNaN(a) \/ IsNaN(b) THEN NaN
    ELSE IF IsInf(a) \/ IsInf(b) THEN Q(Sign(a.n) * Sign(b.n), 0)
    ELSE LET g1 == GCD(Abs(a.n), b.d)
             g2 == GCD(Abs(b.n), a.d)
         IN  Q((a.n \div g1) * (b.n \div g2), (a.d \div g2) * (b.d \div g1))

\* a / b on a float64 Series: x/0 is +-inf, 0/0 is NaN, x/inf is 0
Div(a, b) ==
    IF IsNaN(a) \/ IsNaN(b) THEN NaN
    ELSE IF IsInf(b) THEN (IF IsInf(a) THEN NaN ELSE Zero)
    ELSE IF b.n = 0 THEN Q(a.n, 0)
    ELSE Mul(a, [n |-> Sign(b.n) * b.d, d |-> Abs(b.n)])

\* a > b on float64: every comparison with NaN is False
Gt(a, b) ==
    IF IsNaN(a) \/ IsNaN(b) THEN FALSE
    ELSE IF IsInf(a) THEN a.n = 1 /\ b # PosInf
    ELSE IF IsInf(b) THEN b.n = -1
    ELSE a.n * b.d > b.n * a.d

\* a >= b with > for >=
GtForGe(a, b) == Gt(a, b)

\* a >= b on float64
Ge(a, b) == Gt(a, b) \/ (~IsNaN(a) /\ a = b)

\* a ** k for an int k >= 0 (x ** 0 is 1.0, also for NaN)
RECURSIVE Pow(_, _)
Pow(a, k) == IF k = 0 THEN One ELSE Mul(a, Pow(a, k - 1))

\* round(a, 2): to the nearest hundredth, ties to even; NaN and inf pass
Round2(a) ==
    IF ~IsFinite(a) THEN a
    ELSE LET q  == a.n \div a.d
             r  == a.n % a.d
             h  == (100 * r) \div a.d
             f2 == 2 * ((100 * r) % a.d)
             k  == IF f2 > a.d THEN h + 1
                   ELSE IF f2 < a.d THEN h
                   ELSE IF (100 * q + h) % 2 = 0 THEN h ELSE h + 1
         IN  Q(100 * q + k, 100)

----------------------------------------------------------------------------
(* DataFrames *)

Columns(row) == DOMAIN row.cols

\* df[c] = ... for one row: the column is added, or overwritten when present
SetCol(row, c, v) == [row EXCEPT !.cols = (c :> v) @@ @]

\* df[[c1, c2, ...]]
Project(df, C) ==
    [i \in DOMAIN df |-> [df[i] EXCEPT !.cols = [c \in C |-> @[c]]]]

\* the symbols of a frame
SymbolsOf(df) == {df[i].symbol : i \in DOMAIN df}

\* a column lookup that raises KeyError: some row lacks one of the columns C
\* (a frame is known by its rows here, so a frame without rows lacks none)
Missing(df, C) == \E i \in DOMAIN df : ~(C \subseteq Columns(df[i]))

\* max of a non-empty set of finite floats
MaxOf(S) == CHOOSE m \in S : \A x \in S : ~Gt(x, m)

\* df.groupby('symbol')[c].max(): one entry per symbol of df
GroupMax(df, c) ==
    [s \in SymbolsOf(df) |->
        MaxOf({df[i].cols[c] : i \in {j \in DOMAIN df : df[j].symbol = s}})]

\* Series.sum() of the cells of column c at the row indices I, in row order;
\* pandas sums with skipna=True: a NaN cell counts as 0
RECURSIVE SumAt(_, _, _)
SumAt(df, c, I) ==
    IF I = {} THEN Zero
    ELSE LET i == CHOOSE k \in I : \A j \in I : j <= k
             v == df[i].cols[c]
         IN  Add(SumAt(df, c, I \ {i}), IF IsNaN(v) THEN Zero ELSE v)

\* df.groupby('symbol')[c].sum()
GroupSum(df, c) ==
    [s \in SymbolsOf(df) |-> SumAt(df, c, {j \in DOMAIN df : df[j].symbol = s})]

\* df.merge(m, on='symbol') for a right side m with one row per symbol, given
\* as a function symbol -> cell of the single column c (inner join: the left
\* rows whose symbol has no entry are dropped)
MergeMap(df, m, c) ==
    LET kept == SelectSeq(df, LAMBDA r : r.symbol \in DOMAIN m)
    IN  [i \in DOMAIN kept |-> SetCol(kept[i], c, m[kept[i].symbol])]

\* df.merge(right, on='symbol'), inner join in the order of the left rows:
\* every left row is paired with every right row of its symbol
RECURSIVE MergeOn(_, _)
MergeOn(left, right) ==
    IF left = << >> THEN << >>
    ELSE LET l == Head(left)
             m == SelectSeq(right, LAMBDA r : r.symbol = l.symbol)
         IN  [i \in DOMAIN m |-> [l EXCEPT !.cols = m[i].cols @@ @]]
             \o MergeOn(Tail(left), right)

----------------------------------------------------------------------------
(* the stages, as functions of the frame they are given *)

\* defaults of the keyword parameters, as n / 10000 and n / 1000 and n / 100
RiskFreeRateBp      == 69
MarketRiskPremiumPc == 6
GdpGrowthRateMil    == 29
MarginOfSafetyPc    == 25

risk_free_rate      == Q(RiskFreeRateBp, 10000)
market_risk_premium == Q(MarketRiskPremiumPc, 100)
gdp_growth_rate     == Q(GdpGrowthRateMil, 1000)
margin_of_safety    == Q(MarginOfSafetyPc, 100)

\* the cell left as it is: the replacement forgotten
KeepNonFinite(v) == v

\* df.replace([np.inf, -np.inf, np.nan], 0), for one cell
ReplaceNonFinite(v) == IF IsFinite(v) THEN v ELSE Zero

ValuationColumns ==
    {"year", "freeCashFlow", "marketCap", "shortTermDebt", "longTermDebt",
     "profile.beta", "cashAndCashEquivalents", "totalLiabilities",
     "numberOfShares", "stockPrice"}

\* prepare_valuation_inputs(df, report_year, eval_period, *args)
prepare_valuation_inputs(df, report_year, eval_period, symbol_filter) ==
    LET d1 == SelectSeq(df, LAMBDA r : r.symbol \in symbol_filter)
        start_year == report_year - eval_period
        d2 == SelectSeq(d1, LAMBDA r : Ge(r.cols["year"], Q(start_year, 1)))
        d3 == [i \in DOMAIN d2 |->
                 SetCol(d2[i], "interestRate",
                        Round2(Div(d2[i].cols["interestExpense"],
                                   d2[i].cols["totalDebt"])))]
        d4 == [i \in DOMAIN d3 |->
                 [d3[i] EXCEPT !.cols =
                     [c \in DOMAIN @ |-> ReplaceNonFinite(@[c])]]]
        max_tax_rate      == GroupMax(d4, "effectiveTaxRate")
        max_interest_rate == GroupMax(d4, "interestRate")
        d5 == Project(d4, ValuationColumns)
        d6 == SelectSeq(d5, LAMBDA r : r.cols["year"] = Q(report_year, 1))
        \* the merged columns under the names the rename gives them
        m1 == MergeMap(d6, max_tax_rate, "Max Tax Rate")
        m2 == MergeMap(m1, max_interest_rate, "Max Interest Rate")
    IN  [i \in DOMAIN m2 |->
            SetCol(m2[i], "Max Tax Rate", Round2(m2[i].cols["Max Tax Rate"]))]

DiscountRateInputs ==
    {"marketCap", "shortTermDebt", "longTermDebt", "Max Interest Rate",
     "Max Tax Rate", "profile.beta"}

\* the WACC on the book value of the debt: the markup of 1.20 forgotten
DiscountRateOnBookDebt(r) ==
    LET market_value_equity == r.cols["marketCap"]
        market_value_debt ==
            Add(r.cols["shortTermDebt"], r.cols["longTermDebt"])
        total_market_value_debt_equity ==
            Add(market_value_equity, market_value_debt)
        cost_of_debt ==
            Mul(r.cols["Max Interest Rate"], Sub(One, r.cols["Max Tax Rate"]))
        cost_of_equity ==
            Add(risk_free_rate, Mul(r.cols["profile.beta"], market_risk_premium))
    IN  Round2(Add(Mul(Div(market_value_equity, total_market_value_debt_equity),
                       cost_of_equity),
                   Mul(Div(market_value_debt, total_market_value_debt_equity),
                       cost_of_debt)))

\* the 'Discount Rate' cell calculate_discount_rate computes for one row
DiscountRateOf(r) ==
    LET market_value_equity == r.cols["marketCap"]
        market_value_debt ==
            Mul(Add(r.cols["shortTermDebt"], r.cols["longTermDebt"]), Q(120, 100))
        total_market_value_debt_equity ==
            Add(market_value_equity, market_value_debt)
        cost_of_debt ==
            Mul(r.cols["Max Interest Rate"], Sub(One, r.cols["Max Tax Rate"]))
        cost_of_equity ==
            Add(risk_free_rate, Mul(r.cols["profile.beta"], market_risk_premium))
    IN  Round2(Add(Mul(Div(market_value_equity, total_market_value_debt_equity),
                       cost_of_equity),
                   Mul(Div(market_value_debt, total_market_value_debt_equity),
                       cost_of_debt)))

\* calculate_discount_rate(df): the frame after df['Discount Rate'] = ...
calculate_discount_rate(df) ==
    [i \in DOMAIN df |-> SetCol(df[i], "Discount Rate", DiscountRateOf(df[i]))]

ProjectionInputs == {"freeCashFlow", "Long Term Growth Rate", "Discount Rate"}

\* the row calculate_discounted_free_cash_flow appends to dfcf for the row r
\* of df and the year offset `year`
ProjectionRow(r, year) ==
    LET projected_free_cash_flow ==
            Mul(r.cols["freeCashFlow"],
                Pow(Add(One, r.cols["Long Term Growth Rate"]), year))
        discount_factor ==
            Div(One, Pow(Add(One, r.cols["Discount Rate"]), year))
        discounted_free_cash_flow ==
            Mul(projected_free_cash_flow, discount_factor)
    IN  [symbol |-> r.symbol,
         cols   |-> [c \in {"year", "Last Projected FCF",
                            "Last Projected Discount Factor",
                            "Present Value of Discounted FCF"} |->
                       CASE c = "year" -> Q(year, 1)
                         [] c = "Last Projected FCF" ->
                                Round2(projected_free_cash_flow)
                         [] c = "Last Projected Discount Factor" ->
                                Round2(discount_factor)
                         [] OTHER -> Round2(discounted_free_cash_flow)]]

\* dfcf when the two loops are over: the offsets 0..projection_window of the
\* first row of df, then those of the second row, ...
ProjectionRows(df, projection_window) ==
    [k \in 1 .. Len(df) * (projection_window + 1) |->
        ProjectionRow(df[((k - 1) \div (projection_window + 1)) + 1],
                      (k - 1) % (projection_window + 1))]

\* dfcf.loc[dfcf['year'] != 0]
RetainedRows(dfcf) == SelectSeq(dfcf, LAMBDA r : r.cols["year"] # Zero)

\* dfcf.loc[dfcf['year'] == max(dfcf['year'])][['symbol', c]]
LastRows(dfcf, c) ==
    LET last == MaxOf({dfcf[i].cols["year"] : i \in DOMAIN dfcf})
    IN  Project(SelectSeq(dfcf, LAMBDA r : r.cols["year"] = last), {c})

\* calculate_discounted_free_cash_flow(df, projection_window, **kwargs):
\* err is the exception raised ("none": the call returns df), dfcf the
\* projection rows retained before the aggregation
calculate_discounted_free_cash_flow(df, projection_window, kwargs) ==
    LET merged == MergeMap(df, kwargs, "Long Term Growth Rate")
        raw    == ProjectionRows(merged, projection_window)
        dfcf   == RetainedRows(raw)
        pv_dfcf == GroupSum(dfcf, "Present Value of Discounted FCF")
    IN  IF Missing(merged, ProjectionInputs)
          THEN [err |-> "KeyError", df |-> << >>, dfcf |-> << >>]
        ELSE IF \E i \in DOMAIN merged : \E year \in 0 .. projection_window :
                   Pow(Add(One, merged[i].cols["Discount Rate"]), year) = Zero
          THEN [err |-> "ZeroDivisionError", df |-> << >>, dfcf |-> << >>]
        ELSE IF dfcf = << >>
          THEN [err |-> "ValueError", df |-> << >>, dfcf |-> dfcf]
        ELSE [err  |-> "none",
              df   |-> MergeOn(MergeOn(MergeMap(merged, pv_dfcf,
                                          "Present Value of Discounted FCF"),
                                       LastRows(dfcf, "Last Projected FCF")),
                               LastRows(dfcf, "Last Projected Discount Factor")),
              dfcf |-> dfcf]

TerminalValueInputs == {"Last Projected FCF", "Discount Rate"}

\* the 'Terminal Value' cell calculate_terminal_value computes for one row:
\* (Last Projected FCF * (1 + g)) / Discount Rate - g, the division first
TerminalValueOf(r) ==
    Sub(Div(Mul(r.cols["Last Projected FCF"], Add(One, gdp_growth_rate)),
            r.cols["Discount Rate"]),
        gdp_growth_rate)

\* calculate_terminal_value(df): the frame after df['Terminal Value'] = ...
calculate_terminal_value(df) ==
    [i \in DOMAIN df |-> SetCol(df[i], "Terminal Value", TerminalValueOf(df[i]))]

IntrinsicValueInputs ==
    {"Present Value of Discounted FCF", "Terminal Value",
     "cashAndCashEquivalents", "totalLiabilities", "numberOfShares"}

\* the 'Intrinsic Value' cell calculate_intrinsic_value computes for one row
IntrinsicValueOf(r) ==
    Div(Sub(Add(Add(r.cols["Present Value of Discounted FCF"],
                    r.cols["Terminal Value"]),
                r.cols["cashAndCashEquivalents"]),
            r.cols["totalLiabilities"]),
        r.cols["numberOfShares"])

\* calculate_intrinsic_value(df): the frame after df['Intrinsic Value'] = ...
calculate_intrinsic_value(df) ==
    [i \in DOMAIN df |-> SetCol(df[i], "Intrinsic Value", IntrinsicValueOf(df[i]))]

\* the 'Margin of Safety Value' cell of one row
MarginOfSafetyValueOf(r) ==
    LET multiplier == Sub(One, margin_of_safety)
    IN  Mul(r.cols["Intrinsic Value"], multiplier)

\* the decision with >= for >
BuyDecisionAtOrAbove(r) ==
    IF Ge(r.cols["Margin of Safety Value"], r.cols["stockPrice"])
    THEN "Yes" ELSE "No"

\* the 'Buy Decision' cell of one row that has its 'Margin of Safety Value'
BuyDecisionOf(r) ==
    IF Gt(r.cols["Margin of Safety Value"], r.cols["stockPrice"])
    THEN "Yes" ELSE "No"

\* the frame after df['Margin of Safety Value'] = ...
SetMarginOfSafetyValue(df) ==
    [i \in DOMAIN df |->
        SetCol(df[i], "Margin of Safety Value", MarginOfSafetyValueOf(df[i]))]

\* calculate_margin_of_safety(df): the frame after both assignments
calculate_margin_of_safety(df) ==
    LET d1 == SetMarginOfSafetyValue(df)
    IN  [i \in DOMAIN d1 |-> SetCol(d1[i], "Buy Decision", BuyDecisionOf(d1[i]))]

----------------------------------------------------------------------------
(* the inputs the pipeline is run on *)

MaxWindow   == 3      \* projection_window ranges over 0 .. MaxWindow
MaxLookback == 1      \* eval_period ranges over 0 .. MaxLookback
ReportYear  == 2020   \* report_year

\* one CompanyFinancialRecord without its year
Record(fcf, cap, std, ltd, beta, cash, liab, shares, price, ie, td, tax) ==
    [freeCashFlow |-> fcf, marketCap |-> cap, shortTermDebt |-> std,
     longTermDebt |-> ltd, cashAndCashEquivalents |-> cash,
     totalLiabilities |-> liab, numberOfShares |-> shares, stockPrice |-> price,
     interestExpense |-> ie, totalDebt |-> td, effectiveTaxRate |-> tax]
    @@ ("profile.beta" :> beta)

N(k) == Q(k, 1)

\* a sound company
Sound == Record(N(100), N(970), N(10), N(15), Q(158, 100), N(50), N(30),
                N(10), N(100), N(5), N(100), Q(1, 5))
\* no equity and no debt; interestExpense / totalDebt is 0 / 0, and the tax
\* rate is not reported
ZeroCap == Record(N(100), Zero, Zero, Zero, One, N(50), N(30),
                  N(10), N(100), Zero, Zero, NaN)
\* no shares outstanding; interestExpense / totalDebt is 5 / 0
NoShares == Record(N(100), N(970), N(10), N(15), Q(158, 100), N(50), N(30),
                   Zero, N(100), N(5), Zero, Q(1, 5))
\* interest income and a tax benefit; a beta that brings the WACC to 0.00
NegRates == Record(N(100), N(970), N(10), N(15), Q(-1, 10), N(50), N(30),
                   N(10), N(200), N(-5), N(100), Q(-1, 10))
\* an expensive year: high interest, a tax rate of 0.3456; the share count is
\* not reported
HighRates == Record(N(80), N(900), N(10), N(15), Q(158, 100), N(40), N(30),
                    NaN, N(90), N(20), N(100), Q(3456, 10000))

Absent == [absent |-> TRUE]

ReportYearRecords == {Absent, Sound, ZeroCap, NoShares, NegRates}
EarlierRecords    == {Absent, NegRates, HighRates}

HistoryRow(s, y, rec) == [symbol |-> s, cols |-> rec @@ ("year" :> N(y))]

\* the history with the records a1, a0 of AAA and b1, b0 of BBB for the year
\* before the report year and the report year
History(a1, a0, b1, b0) ==
    SelectSeq(<< [s |-> "AAA", y |-> ReportYear - 1, rec |-> a1],
                 [s |-> "BBB", y |-> ReportYear - 1, rec |-> b1],
                 [s |-> "AAA", y |-> ReportYear,     rec |-> a0],
                 [s |-> "BBB", y |-> ReportYear,     rec |-> b0] >>,
              LAMBDA c : c.rec # Absent)

Histories ==
    { [i \in DOMAIN h |-> HistoryRow(h[i].s, h[i].y, h[i].rec)] :
        h \in { History(a1, a0, b1, b0) :
                  a1 \in EarlierRecords, a0 \in ReportYearRecords,
                  b1 \in EarlierRecords, b0 \in ReportYearRecords } }

\* histories that report a company twice for one year
DuplicateHistories ==
    { << HistoryRow("AAA", ReportYear, Sound),
         HistoryRow("AAA", ReportYear, NegRates) >>,
      << HistoryRow("BBB", ReportYear - 1, HighRates),
         HistoryRow("AAA", ReportYear, Sound),
         HistoryRow("BBB", ReportYear, Sound),
         HistoryRow("BBB", ReportYear, Sound) >> }

SymbolFilters == { {"AAA", "BBB"}, {"AAA"} }

\* the **kwargs of calculate_discounted_free_cash_flow
GrowthMaps ==
    { ("AAA" :> Q(1, 20)) @@ ("BBB" :> Zero),
      ("AAA" :> Q(1, 10)) @@ ("BBB" :> Q(1, 20)),
      ("AAA" :> Q(1, 20)),
      << >> }

\* frames a caller hands to one stage directly
Row(s, cols) == [symbol |-> s, cols |-> cols]

\* a caller that wants the WACC only: the columns of DiscountRateInputs
Wacc(cap, std, ltd, ir, tax, beta) ==
    [marketCap |-> cap, shortTermDebt |-> std, longTermDebt |-> ltd]
    @@ ("Max Interest Rate" :> ir) @@ ("Max Tax Rate" :> tax)
    @@ ("profile.beta" :> beta)

DiscountRateFrames ==
    { << Row("AAA", Wacc(N(400), N(200), N(300), Q(1, 20), Q(1, 5), Q(3, 2))) >>,
      << Row("AAA", Wacc(N(500), N(100), N(150), Q(1, 10), Q(3, 10), One)),
         Row("BBB", Wacc(Zero, Zero, Zero, Q(1, 20), Q(1, 5), One)) >>,
      << Row("BBB", Wacc(N(-300), N(100), N(150), Q(1, 20), Q(1, 5), One)) >>,
      << Row("AAA", Wacc(N(250), N(250), N(375), Q(2, 25), Q(1, 4), Q(1, 2))) >> }

\* the scenario "AAA": base FCF 1000 at a discount rate of 0.10, next to a
\* company whose discount rate is -1
Base(fcf, dr, cash, liab, shares, price) ==
    [freeCashFlow |-> fcf, cashAndCashEquivalents |-> cash,
     totalLiabilities |-> liab, numberOfShares |-> shares, stockPrice |-> price]
    @@ ("Discount Rate" :> dr)

ProjectionFrames ==
    { << Row("AAA", Base(N(1000), Q(1, 10), N(500), N(300), N(100), N(100))) >>,
      << Row("AAA", Base(N(1000), Zero, N(500), N(300), N(100), N(100))),
         Row("BBB", Base(N(100), N(-1), N(50), N(30), N(10), N(100))) >> }

Projected(last, dr, pv, cash, liab, shares, price) ==
    [cashAndCashEquivalents |-> cash, totalLiabilities |-> liab,
     numberOfShares |-> shares, stockPrice |-> price]
    @@ ("Last Projected FCF" :> last) @@ ("Discount Rate" :> dr)
    @@ ("Present Value of Discounted FCF" :> pv)

TerminalValueFrames ==
    { << Row("AAA", Projected(Q(1157625, 1000), Q(1, 10), Q(273487, 100),
                              N(500), N(300), N(100), N(100))),
         Row("BBB", Projected(Q(1157625, 1000), Q(1, 50), Q(273487, 100),
                              N(500), N(300), N(100), N(100))) >>,
      << Row("AAA", Projected(N(1000), gdp_growth_rate, N(3000),
                              N(500), N(300), NaN, N(100))),
         Row("BBB", Projected(N(1000), Q(-1, 20), N(3000),
                              N(500), N(300), N(100), N(100))) >> }

Valued(iv, price) == [stockPrice |-> price] @@ ("Intrinsic Value" :> iv)

MarginOfSafetyFrames ==
    { << Row("AAA", Valued(N(100), N(74))), Row("BBB", Valued(N(100), N(75))) >>,
      << Row("AAA", Valued(N(100), N(76))), Row("BBB", Valued(NaN, N(75))) >>,
      << Row("AAA", Valued(NegInf, N(10))), Row("BBB", Valued(N(-8), N(-6))) >> }

----------------------------------------------------------------------------
(* the caller: a script that runs the stages in their order on the frame    *)
(* the stage before returned                                               *)

VARIABLES
    frames,   \* the DataFrame objects alive, by identity
    held,     \* the frame the caller holds: the one it passes on next
    passed,   \* the frame passed to the last call
    before,   \* the content of that frame when the call began
    call,     \* the last call: its name and arguments
    err,      \* the exception the last call raised, or "none"
    dfcf,     \* the projection rows the last projection retained
    pc        \* the stage to call next

vars == << frames, held, passed, before, call, err, dfcf, pc >>

Start(stage, df) ==
    /\ frames = << df >>
    /\ held = 1
    /\ passed = 1
    /\ before = df
    /\ call = [op |-> "none"]
    /\ err = "none"
    /\ dfcf = << >>
    /\ pc = stage

Init ==
    \/ \E df \in Histories \cup DuplicateHistories :
          Start("prepare_valuation_inputs", df)
    \/ \E df \in DiscountRateFrames : Start("calculate_discount_rate", df)
    \/ \E df \in ProjectionFrames :
          Start("calculate_discounted_free_cash_flow", df)
    \/ \E df \in TerminalValueFrames : Start("calculate_terminal_value", df)
    \/ \E df \in MarginOfSafetyFrames : Start("calculate_margin_of_safety", df)

\* the call op(frames[held]) raises exc
Raise(op, exc) ==
    /\ passed' = held
    /\ before' = frames[held]
    /\ call' = op
    /\ err' = exc
    /\ pc' = "failed"
    /\ UNCHANGED held

\* the call writes its result into the frame it was given and returns that
ReturnInPlace(op, df, next) ==
    /\ frames' = [frames EXCEPT ![held] = df]
    /\ held' = held
    /\ passed' = held
    /\ before' = frames[held]
    /\ call' = op
    /\ err' = "none"
    /\ pc' = next

\* the call returns a frame of its own making
ReturnNew(op, df, next) ==
    /\ frames' = Append(frames, df)
    /\ held' = Len(frames) + 1
    /\ passed' = held
    /\ before' = frames[held]
    /\ call' = op
    /\ err' = "none"
    /\ pc' = next

\* the call has assigned to columns of the frame it was given, which is now
\* df, and returns that frame
ReturnSame(op, df, next) ==
    /\ frames' = [frames EXCEPT ![held] = df]
    /\ held' = held
    /\ passed' = held
    /\ before' = frames[held]
    /\ call' = op
    /\ err' = "none"
    /\ pc' = next

PrepareValuationInputs ==
    /\ pc = "prepare_valuation_inputs"
    /\ \E eval_period \in 0 .. MaxLookback, symbol_filter \in SymbolFilters :
          ReturnNew([op |-> "prepare_valuation_inputs",
                     report_year |-> ReportYear, eval_period |-> eval_period,
                     symbol_filter |-> symbol_filter],
                    prepare_valuation_inputs(frames[held], ReportYear,
                                             eval_period, symbol_filter),
                    "calculate_discount_rate")
    /\ UNCHANGED dfcf

CalculateDiscountRate ==
    /\ pc = "calculate_discount_rate"
    /\ IF Missing(frames[held], DiscountRateInputs)
       THEN Raise([op |-> "calculate_discount_rate"], "KeyError")
            /\ UNCHANGED frames
       ELSE ReturnSame([op |-> "calculate_discount_rate"],
                       calculate_discount_rate(frames[held]),
                       "calculate_discounted_free_cash_flow")
    /\ UNCHANGED dfcf

CalculateDiscountedFreeCashFlow ==
    /\ pc = "calculate_discounted_free_cash_flow"
    /\ \E projection_window \in 0 .. MaxWindow, kwargs \in GrowthMaps :
          LET op == [op |-> "calculate_discounted_free_cash_flow",
                     projection_window |-> projection_window,
                     kwargs |-> kwargs]
              r  == calculate_discounted_free_cash_flow(
                        frames[held], projection_window, kwargs)
          IN  /\ IF r.err = "none"
                 THEN ReturnNew(op, r.df, "calculate_terminal_value")
                 ELSE Raise(op, r.err) /\ UNCHANGED frames
              /\ dfcf' = r.dfcf

CalculateTerminalValue ==
    /\ pc = "calculate_terminal_value"
    /\ IF Missing(frames[held], TerminalValueInputs)
       THEN Raise([op |-> "calculate_terminal_value"], "KeyError")
            /\ UNCHANGED frames
       ELSE ReturnSame([op |-> "calculate_terminal_value"],
                       calculate_terminal_value(frames[held]),
                       "calculate_intrinsic_value")
    /\ UNCHANGED dfcf

CalculateIntrinsicValue ==
    /\ pc = "calculate_intrinsic_value"
    /\ IF Missing(frames[held], IntrinsicValueInputs)
       THEN Raise([op |-> "calculate_intrinsic_value"], "KeyError")
            /\ UNCHANGED frames
       ELSE ReturnSame([op |-> "calculate_intrinsic_value"],
                       calculate_intrinsic_value(frames[held]),
                       "calculate_margin_of_safety")
    /\ UNCHANGED dfcf

\* 'Margin of Safety Value' is assigned before 'stockPrice' is looked up
CalculateMarginOfSafety ==
    /\ pc = "calculate_margin_of_safety"
    /\ IF Missing(frames[held], {"Intrinsic Value"})
       THEN Raise([op |-> "calculate_margin_of_safety"], "KeyError")
            /\ UNCHANGED frames
       ELSE IF Missing(frames[held], {"stockPrice"})
       THEN Raise([op |-> "calculate_margin_of_safety"], "KeyError")
            /\ frames' = [frames EXCEPT
                             ![held] = SetMarginOfSafetyValue(frames[held])]
       ELSE ReturnSame([op |-> "calculate_margin_of_safety"],
                       calculate_margin_of_safety(frames[held]), "done")
    /\ UNCHANGED dfcf

Next ==
    \/ PrepareValuationInputs
    \/ CalculateDiscountRate
    \/ CalculateDiscountedFreeCashFlow
    \/ CalculateTerminalValue
    \/ CalculateIntrinsicValue
    \/ CalculateMarginOfSafety

Spec == Init /\ [][Next]_vars

----------------------------------------------------------------------------
(* what the caller can observe after a call *)

Stages ==
    {"calculate_discount_rate", "calculate_discounted_free_cash_flow",
     "calculate_terminal_value", "calculate_intrinsic_value",
     "calculate_margin_of_safety"}

\* the last call was op
Called(op) == call.op = op

\* the last call was op and it returned
Returned(op) == call.op = op /\ err = "none"

\* the frame the last call returned
Result == frames[held]

Rows(df) == {df[i] : i \in DOMAIN df}

IsPositive(a) == a.n > 0

\* a <= b for floats that are not NaN
Le(a, b) == ~IsNaN(a) /\ ~IsNaN(b) /\ ~IsPositive(Sub(a, b)) /\ ~IsNaN(Sub(a, b))

----------------------------------------------------------------------------
(* C1: for every row passed to calculate_terminal_value with Discount Rate  *)
(* > gdp_growth_rate, Terminal Value = (Last Projected FCF * (1 + g)) /     *)
(* (Discount Rate - g): g is subtracted from the rate before the division.  *)
C1_GordonGrowthTerminalValue ==
    Returned("calculate_terminal_value") =>
        \A r \in Rows(Result) :
            IsPositive(Sub(r.cols["Discount Rate"], gdp_growth_rate)) =>
                r.cols["Terminal Value"] =
                    Div(Mul(r.cols["Last Projected FCF"],
                            Q(1000 + GdpGrowthRateMil, 1000)),
                        Sub(r.cols["Discount Rate"], gdp_growth_rate))

(* C2: when a symbol of the table given to                                  *)
(* calculate_discounted_free_cash_flow has no entry in the growth-rate      *)
(* mapping, the call fails; it never returns with that symbol's row absent. *)
C2_MissingGrowthRateFails ==
    ( /\ Called("calculate_discounted_free_cash_flow")
      /\ \E r \in Rows(before) : r.symbol \notin DOMAIN call.kwargs )
    => err # "none"

\* the retained projection rows of the symbol s
RetainedOf(s) == {i \in DOMAIN dfcf : dfcf[i].symbol = s}

\* its row at the offset t
RetainedAt(s, t) ==
    dfcf[CHOOSE i \in RetainedOf(s) : dfcf[i].cols["year"] = N(t)]

\* discounted_fcf(1) + ... + discounted_fcf(t) of the symbol s, in float64
RECURSIVE SumOfDiscounted(_, _)
SumOfDiscounted(s, t) ==
    IF t = 0 THEN Zero
    ELSE Add(SumOfDiscounted(s, t - 1),
             RetainedAt(s, t).cols["Present Value of Discounted FCF"])

\* w rows at the offsets 1..w, and the last values of r those at w
ProjectionShape(r, w) ==
    /\ Cardinality(RetainedOf(r.symbol)) = w
    /\ {dfcf[i].cols["year"] : i \in RetainedOf(r.symbol)} = {N(t) : t \in 1 .. w}
    /\ r.cols["Last Projected FCF"] =
           RetainedAt(r.symbol, w).cols["Last Projected FCF"]
    /\ r.cols["Last Projected Discount Factor"] =
           RetainedAt(r.symbol, w).cols["Last Projected Discount Factor"]

(* C3: for every symbol processed by calculate_discounted_free_cash_flow     *)
(* with projection window w >= 1, exactly w projection rows are retained,    *)
(* with the year offsets 1..w and none at offset 0; Present Value of         *)
(* Discounted FCF is the sum of the discounted flows of the offsets 1..w,    *)
(* and Last Projected FCF and Last Projected Discount Factor are those at w. *)
C3_ProjectionRowsAndSum ==
    ( Returned("calculate_discounted_free_cash_flow")
      /\ call.projection_window >= 1 ) =>
        \A r \in Rows(Result) :
            /\ ProjectionShape(r, call.projection_window)
            /\ r.cols["Present Value of Discounted FCF"] =
                   SumOfDiscounted(r.symbol, call.projection_window)

(* C4: for every row passed to calculate_margin_of_safety, Margin of Safety  *)
(* Value = Intrinsic Value * (1 - margin_of_safety), and Buy Decision is     *)
(* 'Yes' if and only if that value is strictly greater than stockPrice;      *)
(* otherwise, equality included, it is 'No'.                                 *)
C4_BuyDecision ==
    Returned("calculate_margin_of_safety") =>
        \A r \in Rows(Result) :
            /\ r.cols["Margin of Safety Value"] =
                   Mul(Q(100 - MarginOfSafetyPc, 100), r.cols["Intrinsic Value"])
            /\ r.cols["Buy Decision"] \in {"Yes", "No"}
            /\ r.cols["Buy Decision"] = "Yes" <=>
                   IsPositive(Sub(r.cols["Margin of Safety Value"],
                                  r.cols["stockPrice"]))

\* a row whose safety value equals its price was decided 'No', next to a 'Yes'
C4_Witness ==
    /\ Returned("calculate_margin_of_safety")
    /\ \E r \in Rows(Result) :
          /\ r.cols["Margin of Safety Value"] = r.cols["stockPrice"]
          /\ r.cols["Buy Decision"] = "No"
    /\ \E r \in Rows(Result) : r.cols["Buy Decision"] = "Yes"

\* the market value of the debt: its book value marked up by a fifth
DebtValue(r) ==
    Add(Mul(Q(6, 5), r.cols["shortTermDebt"]), Mul(Q(6, 5), r.cols["longTermDebt"]))

\* the total market value of debt and equity
TotalValue(r) == Add(r.cols["marketCap"], DebtValue(r))

\* the WACC over the common denominator: (E * ke + D * kd) / (E + D)
Wacc2(r) ==
    LET kd == Sub(r.cols["Max Interest Rate"],
                  Mul(r.cols["Max Interest Rate"], r.cols["Max Tax Rate"]))
        ke == Add(Q(RiskFreeRateBp, 10000),
                  Mul(Q(MarketRiskPremiumPc, 100), r.cols["profile.beta"]))
    IN  Round2(Div(Add(Mul(r.cols["marketCap"], ke), Mul(DebtValue(r), kd)),
                   TotalValue(r)))

(* C5: for every row with non-zero total market value, Discount Rate is      *)
(* weight_equity * cost_of_equity + weight_debt * cost_of_debt rounded to 2  *)
(* decimals, with weight_equity = marketCap / total, weight_debt =           *)
(* ((shortTermDebt + longTermDebt) * 1.20) / total, total their sum,         *)
(* cost_of_debt = Max Interest Rate * (1 - Max Tax Rate), cost_of_equity =   *)
(* risk_free_rate + beta * market_risk_premium; the weights sum to 1.        *)
C5_DiscountRateIsWacc ==
    Returned("calculate_discount_rate") =>
        \A r \in Rows(Result) :
            (IsFinite(TotalValue(r)) /\ TotalValue(r) # Zero) =>
                /\ r.cols["Discount Rate"] = Wacc2(r)
                /\ Add(Div(r.cols["marketCap"], TotalValue(r)),
                       Div(DebtValue(r), TotalValue(r))) = One

\* a levered company (both weights positive) got a finite, non-zero rate
C5_Witness ==
    /\ Returned("calculate_discount_rate")
    /\ \E r \in Rows(Result) :
          /\ IsPositive(r.cols["marketCap"])
          /\ IsPositive(DebtValue(r))
          /\ IsFinite(r.cols["Discount Rate"])
          /\ r.cols["Discount Rate"] # Zero

(* C6: given a row whose Discount Rate is less than or equal to              *)
(* gdp_growth_rate, calculate_terminal_value fails; it never returns a       *)
(* Terminal Value for such a row.                                            *)
C6_DegenerateRateFails ==
    ( /\ Called("calculate_terminal_value")
      /\ \E r \in Rows(before) : Le(r.cols["Discount Rate"], gdp_growth_rate) )
    => err # "none"

(* C7: given a row whose marketCap and shortTermDebt + longTermDebt are both *)
(* zero, calculate_discount_rate surfaces the division by zero as an error;  *)
(* the returned table never carries a NaN or infinite Discount Rate for it.  *)
C7_ZeroMarketValueFails ==
    ( /\ Called("calculate_discount_rate")
      /\ \E r \in Rows(before) :
            /\ r.cols["marketCap"] = Zero
            /\ Add(r.cols["shortTermDebt"], r.cols["longTermDebt"]) = Zero )
    => err # "none"

(* C8: calculate_intrinsic_value fails for any row whose numberOfShares is   *)
(* zero or missing; it never produces an Intrinsic Value for such a row.     *)
C8_NoSharesFails ==
    ( /\ Called("calculate_intrinsic_value")
      /\ \E r \in Rows(before) :
            r.cols["numberOfShares"] = Zero \/ IsNaN(r.cols["numberOfShares"]) )
    => err # "none"

\* the columns a stage assigns to
OutputColumns(op) ==
    CASE op = "calculate_discount_rate"   -> {"Discount Rate"}
      [] op = "calculate_terminal_value"  -> {"Terminal Value"}
      [] op = "calculate_intrinsic_value" -> {"Intrinsic Value"}
      [] op = "calculate_margin_of_safety" ->
             {"Margin of Safety Value", "Buy Decision"}
      [] OTHER -> {}

NonNegative(a) == IsFinite(a) /\ a.n >= 0

\* the rows of the history that count for the maxima of the row r returned
RetainedHistory(r) ==
    {h \in Rows(before) :
        /\ h.symbol = r.symbol
        /\ h.cols["year"].n >= call.report_year - call.eval_period}

\* interestExpense / totalDebt is infinite or undefined
UndefinedInterestRate(h) ==
    h.cols["totalDebt"] = Zero \/ ~IsFinite(h.cols["interestExpense"])
    \/ ~IsFinite(h.cols["totalDebt"])

\* round(interestExpense / totalDebt, 2)
InterestRateOf(h) == Round2(Div(h.cols["interestExpense"], h.cols["totalDebt"]))

UniqueKeys(df) ==
    \A i, j \in DOMAIN df :
        (df[i].symbol = df[j].symbol /\ df[i].cols["year"] = df[j].cols["year"])
            => i = j

\* the symbols requested that have a row for the report year
Reported ==
    {s \in call.symbol_filter :
        \E h \in Rows(before) :
            h.symbol = s /\ h.cols["year"] = N(call.report_year)}

\* exactly one row is returned per symbol of Reported, and no other row
OneRowPerReportedSymbol ==
    /\ SymbolsOf(Result) = Reported
    /\ \A i, j \in DOMAIN Result : Result[i].symbol = Result[j].symbol => i = j

\* a cell of the history as it counts for a maximum: inf and NaN as 0
Counted(v) == IF v.d = 0 THEN Zero ELSE v

\* x is the greatest of the values F(h), h a retained row of the symbol of r
IsMaximumOver(x, r, F(_)) ==
    /\ \E h \in RetainedHistory(r) : F(h) = x
    /\ \A h \in RetainedHistory(r) : ~IsPositive(Sub(F(h), x))

TaxRateOf(h) == Counted(h.cols["effectiveTaxRate"])

CountedInterestRateOf(h) == Counted(InterestRateOf(h))

(* C11: given a history with at most one row per (symbol, year),            *)
(* prepare_valuation_inputs returns, without an error, exactly one row for   *)
(* each requested symbol that has a row for the report year and no row for   *)
(* any other symbol; each returned row carries the maxima of                 *)
(* effectiveTaxRate and interestRate over that symbol's rows with            *)
(* year >= report year - lookback window.                                    *)
C11_OneRowWithMaxima ==
    (Called("prepare_valuation_inputs") /\ UniqueKeys(before)) =>
        /\ err = "none"
        /\ OneRowPerReportedSymbol
        /\ \A r \in Rows(Result) :
              /\ IsMaximumOver(r.cols["Max Tax Rate"], r, TaxRateOf)
              /\ IsMaximumOver(r.cols["Max Interest Rate"], r,
                               CountedInterestRateOf)

(* C11, amended: as C11, but the Max Tax Rate a returned row carries is the  *)
(* maximum of effectiveTaxRate rounded to 2 decimals, and an infinite or     *)
(* undefined effectiveTaxRate or interestRate counts as 0 in the maxima.     *)
C11_OneRowWithRoundedMaximum ==
    (Called("prepare_valuation_inputs") /\ UniqueKeys(before)) =>
        /\ err = "none"
        /\ OneRowPerReportedSymbol
        /\ \A r \in Rows(Result) :
              /\ \E x \in {TaxRateOf(h) : h \in RetainedHistory(r)} :
                    /\ IsMaximumOver(x, r, TaxRateOf)
                    /\ r.cols["Max Tax Rate"] = Round2(x)
              /\ IsMaximumOver(r.cols["Max Interest Rate"], r,
                               CountedInterestRateOf)

\* of two requested companies, one without a row for the report year was
\* dropped, and the other got its maxima from the year before, the tax rate
\* rounded
C11_Witness ==
    /\ Returned("prepare_valuation_inputs")
    /\ UniqueKeys(before)
    /\ \E s \in call.symbol_filter \ Reported : s \in SymbolsOf(before)
    /\ \E r \in Rows(Result) : \E h \in RetainedHistory(r) :
          /\ h.cols["year"] # N(call.report_year)
          /\ r.cols["Max Tax Rate"] = Round2(h.cols["effectiveTaxRate"])
          /\ r.cols["Max Tax Rate"] # h.cols["effectiveTaxRate"]
          /\ r.cols["Max Interest Rate"] = InterestRateOf(h)
          /\ \E g \in RetainedHistory(r) :
                IsPositive(Sub(InterestRateOf(h), InterestRateOf(g)))

====
